---- MODULE Spec2Model ----
(***************************************************************************)
(* Model of BaseDroneEnv (src/environments/BaseDroneEnv.py): the           *)
(* vectorized drone environment with its batched step / reset protocol,    *)
(* parameter regeneration, single-agent reset and the joystick reference   *)
(* controller.                                                             *)
(*                                                                         *)
(* Fixed-point units.  Lengths, angles and velocities: 1.0 = 200 units.    *)
(* Joystick axes: 1.0 = 20 units, so that 0.1 * (axis - 0.1) is a whole    *)
(* number of reference units.  Motor commands: 1.0 = 10 units.  Drone      *)
(* parameters: 1.0 = 1000000 units.                                        *)
(***************************************************************************)
EXTENDS Integers, Sequences, FiniteSets, TLC

VARIABLES
    pendulum,            \* config 'pendulum'
    random_params,       \* config 'random_params'
    random_start_pos,    \* config 'random_start_pos'
    regen_env_at_steps,  \* config 'regen_env_at_steps' (0 stands for None)
    config_controlled,   \* config['controlled'] as passed to __init__
    joystick_controller, \* self.joystick.controller: a device was found
    controlled,          \* self.controlled after construction
    seed,                \* where the seed starts the generator's stream
    np_random,           \* position of the seeded generator in its stream
    reference,           \* self.reference  <<x, y, z, yaw>>
    drone_params,        \* self.drone_params, one 6-tuple of values per drone
    total_steps,         \* self.total_steps
    num_steps,           \* self.num_steps, one counter per drone
    qpos,                \* self.data.qpos
    qvel,                \* self.data.qvel
    sensordata,          \* self.data.sensordata
    act,                 \* self.data.act
    ctrl,                \* self.data.ctrl
    mocap,               \* self.data.mocap_pos[0] \o self.data.mocap_quat[0]
    states,              \* self.states
    step_calls,          \* number of vector_step calls made so far
    steps_since_reset,   \* history: per drone, vector_steps since its last reset
    steps_since_regen,   \* history: vector_steps since the parameters were drawn
    ret                  \* what the last call returned (or raised)

vars == <<pendulum, random_params, random_start_pos, regen_env_at_steps,
          config_controlled, joystick_controller, controlled, seed, np_random, reference, drone_params, total_steps,
          num_steps, qpos, qvel, sensordata, act, ctrl, mocap, states,
          step_calls, steps_since_reset, steps_since_regen, ret>>

config == <<pendulum, random_params, random_start_pos, regen_env_at_steps,
            config_controlled, joystick_controller, controlled, seed>>

-----------------------------------------------------------------------------
(* Bounds of the model *)

num_drones == 2        \* config 'num_drones'
max_steps == 2         \* config 'max_steps'
RngPeriod == 3         \* period of the model's random stream
MaxRefUpdates == 2     \* control_reference calls explored by SpecRef

(* Program constants *)

PI == 628              \* np.pi, in units of 1/200
max_distance == 800    \* config 'max_distance' = 4
max_pos_offset == 160  \* state_difficulty * max_random_offset = 0.4 * 2

TwoPi == 2 * PI
MaxStepCalls == max_steps + 1                 \* vector_step is called at most this often
start_pos == <<0, 0, 3000, 0>>                \* config 'start_pos' [0, 0, 15, 0]
RegenAt == max_steps                          \* the regeneration threshold tried
mass_interval == <<1000000, 100000>>
arm_len_interval == <<170000, 20000>>
motor_force_interval == <<7000000, 1000000>>
motor_tau_interval == <<10000, 2500>>
pendulum_length_interval == <<1200000, 200000>>
weight_mass_interval == <<300000, 50000>>
angle_variance == <<0, 0>>                    \* 'angle_variance' is not configured
vel_variance == <<80, 80, 80>>                \* 0.4 * [1, 1, 1]
ang_vel_variance == <<80, 80, 80>>
pendulum_rp_variance == <<40, 40>>            \* 0.4 * [0.5, 0.5]
pendulum_ang_vel_variance == <<40, 40>>

Drones == 0 .. num_drones - 1

-----------------------------------------------------------------------------
(* Sequences as Python / numpy arrays: 0-based, half-open slices *)

B2I(b) == IF b THEN 1 ELSE 0

Abs(x) == IF x < 0 THEN -x ELSE x

Sign(x) == IF x > 0 THEN 1 ELSE IF x < 0 THEN -1 ELSE 0

Max(a, b) == IF a >= b THEN a ELSE b

Min(a, b) == IF a <= b THEN a ELSE b

Clip(x, lo, hi) == Max(lo, Min(x, hi))

\* a slice bound, normalised the way Python does: negative counts from the end
SliceIdx(k, n) == IF k < 0 THEN Max(k + n, 0) ELSE Min(k, n)

\* s[a:b]
Slice(s, a, b) == SubSeq(s, SliceIdx(a, Len(s)) + 1, SliceIdx(b, Len(s)))

\* number of elements s[a:b] selects
SliceLen(s, a, b) == Max(SliceIdx(b, Len(s)) - SliceIdx(a, Len(s)), 0)

\* s[a:b] = v for a numpy array s (the shapes agree)
SetSlice(s, a, b, v) ==
    SubSeq(s, 1, SliceIdx(a, Len(s))) \o v \o SubSeq(s, SliceIdx(b, Len(s)) + 1, Len(s))

\* drone i of a list or array, Python indexing (negative counts from the end)
At(s, i) == IF i < 0 THEN s[Len(s) + i + 1] ELSE s[i + 1]

Zeros(n) == SubSeq([k \in 1 .. n |-> 0], 1, n)

\* the per-drone slices f[1], f[2], ... laid end to end
RECURSIVE ConcatUpTo(_, _)
ConcatUpTo(f, n) == IF n = 0 THEN <<>> ELSE ConcatUpTo(f, n - 1) \o f[n]

Flatten(f) == ConcatUpTo(f, num_drones)

PStride == 7 + 2 * B2I(pendulum)     \* qpos entries per drone

VStride == 6 + 2 * B2I(pendulum)     \* qvel entries per drone

-----------------------------------------------------------------------------
(* The seeded generator self.np_random: a deterministic stream.  Its k-th   *)
(* output from position r is one of four levels; a call that makes n draws  *)
(* moves the position n places on.                                          *)

RngLevel(r, k) == (3 * ((r + k) % RngPeriod) + 1) % 4

RngAdvance(r, n) == (r + n) % RngPeriod

\* np_random.uniform(-w, w): the levels spread over [-w, w)
Uniform(w, level) == (w * (level - 2)) \div 2

\* np_random.random(): the levels spread over [0, 1), in quarters
Random4(level) == level

\* np_random.normal(scale=s), then .clip(min=-2*s, max=2*s)
ClippedNormal(s, level) == Clip(s * (2 * level - 3), -2 * s, 2 * s)

\* np.cbrt of a quarter, in units of 1/200
Cbrt4(q) == <<0, 126, 159, 182>>[q + 1]

-----------------------------------------------------------------------------
(* transformation.py: the rotation conversions.  A quaternion is kept as   *)
(* its scalar slot followed by the three angles it encodes.                *)

mujoco_rpy2quat(rpy) == <<200, rpy[1], rpy[2], rpy[3]>>

mujoco_quat2rpy(quat) == <<quat[2], quat[3], quat[4]>>

-----------------------------------------------------------------------------
(* generate_drone_params: the parameter values of every drone, in the key  *)
(* order mass, arm_len, motor_force, motor_tau, pendulum_len, weight_mass. *)
(* With random_params, quantity q (0..5) draws num_drones values in one    *)
(* call, so drone i's value of quantity q is draw q * num_drones + i.      *)

param_difficulty_div == 10   \* param_difficulty = 0.1

ParamDrawOffset_DroneMajor(q, i) == 6 * i + q

\* the place of drone i's draw of quantity q among the draws of one call
ParamDrawOffset(q, i) == q * num_drones + i

ParamValue(interval, q, i, r) ==
    IF random_params
    THEN interval[1] + Uniform(interval[2], RngLevel(r, ParamDrawOffset(q, i)))
                          \div param_difficulty_div
    ELSE interval[1]

ParamsOf_OmitPendulum(i, r) ==
    << ParamValue(mass_interval, 0, i, r),
       ParamValue(arm_len_interval, 1, i, r),
       ParamValue(motor_force_interval, 2, i, r),
       ParamValue(motor_tau_interval, 3, i, r) >>
    \o (IF pendulum
        THEN << ParamValue(pendulum_length_interval, 4, i, r),
                ParamValue(weight_mass_interval, 5, i, r) >>
        ELSE <<>>)

ParamsOf(i, r) ==
    << ParamValue(mass_interval, 0, i, r),
       ParamValue(arm_len_interval, 1, i, r),
       ParamValue(motor_force_interval, 2, i, r),
       ParamValue(motor_tau_interval, 3, i, r),
       B2I(pendulum) * ParamValue(pendulum_length_interval, 4, i, r),
       B2I(pendulum) * ParamValue(weight_mass_interval, 5, i, r) >>

generate_drone_params(r) == [k \in 1 .. num_drones |-> ParamsOf(k - 1, r)]

\* the draws generate_drone_params makes
ParamDraws == IF random_params THEN 6 * num_drones ELSE 0

-----------------------------------------------------------------------------
(* sample_state: one drone's initial <<qpos_i, qvel_i>> from stream         *)
(* position r.  The random branch draws, in this order: direction (3),     *)
(* radius (1), roll/pitch (2), yaw (1), velocity (3), angular velocity (3) *)
(* and, with a pendulum, its angles (2) and angular velocity (2).          *)

\* direction / |direction|: the unit vector of the dominant component
UnitDirection(d) ==
    IF Abs(d[1]) >= Abs(d[2]) /\ Abs(d[1]) >= Abs(d[3]) THEN <<Sign(d[1]), 0, 0>>
    ELSE IF Abs(d[2]) >= Abs(d[3]) THEN <<0, Sign(d[2]), 0>>
    ELSE <<0, 0, Sign(d[3])>>

SampleRandom(r) ==
    LET direction == UnitDirection([k \in 1 .. 3 |-> 2 * RngLevel(r, k - 1) - 3])
        radius == (max_pos_offset * Cbrt4(Random4(RngLevel(r, 3)))) \div 200
        pos == [k \in 1 .. 3 |-> start_pos[k] + radius * direction[k]]
        rp == [k \in 1 .. 2 |-> ClippedNormal(angle_variance[k], RngLevel(r, 3 + k))]
        y == PI - (TwoPi * Random4(RngLevel(r, 6))) \div 4
        vel == [k \in 1 .. 3 |-> ClippedNormal(vel_variance[k], RngLevel(r, 6 + k))]
        ang_vel == [k \in 1 .. 3 |->
                       ClippedNormal(ang_vel_variance[k], RngLevel(r, 9 + k))]
        pendulum_rp == [k \in 1 .. 2 |->
                       ClippedNormal(pendulum_rp_variance[k], RngLevel(r, 12 + k))]
        pendulum_vel == [k \in 1 .. 2 |->
                       ClippedNormal(pendulum_ang_vel_variance[k], RngLevel(r, 14 + k))]
        qp == pos \o mujoco_rpy2quat(rp \o <<y>>)
        qv == vel \o ang_vel
    IN  IF pendulum THEN <<qp \o pendulum_rp, qv \o pendulum_vel>> ELSE <<qp, qv>>

SampleDeterministic ==
    LET qp == SubSeq(start_pos, 1, 3) \o mujoco_rpy2quat(<<0, 0, start_pos[4]>>)
        qv == <<0, 0, 0, 0, 0, 0>>
    IN  IF pendulum THEN <<qp \o <<0, 0>>, qv \o <<0, 0>>>> ELSE <<qp, qv>>

sample_state(r) == IF random_start_pos THEN SampleRandom(r) ELSE SampleDeterministic

\* the draws one sample_state call makes
SampleDraws == IF random_start_pos THEN 13 + 4 * B2I(pendulum) ELSE 0

\* the place of drone i's first draw among the draws of one reset_model loop
SampleDrawOffset(i) == i * SampleDraws

-----------------------------------------------------------------------------
(* get_drone_states: the per-drone observation, sliced out of the raw      *)
(* simulation arrays at the per-drone strides.                             *)

DroneState(i, qp, qv, sd, ac, ref, params) ==
    LET pos == Slice(qp, PStride * i, PStride * i + 3)
        rpy == mujoco_quat2rpy(Slice(qp, PStride * i + 3, PStride * i + 7))
        vel == Slice(qv, VStride * i, VStride * i + 3)
        ang_vel == Slice(qv, VStride * i + 3, VStride * i + 6)
        acc == Slice(sd, i * 3, i * 3 + 3)
        actu == Slice(ac, i * 4, (i + 1) * 4)
        pendulum_rp == Slice(qp, PStride * i + 7, PStride * (i + 1))
        pendulum_ang_vel == Slice(qv, VStride * i + 6, VStride * (i + 1))
    IN  IF pendulum
        THEN pos \o rpy \o vel \o ang_vel \o pendulum_rp \o pendulum_ang_vel
                 \o acc \o actu \o ref \o params[i + 1]
        ELSE pos \o rpy \o vel \o ang_vel \o acc \o actu \o ref \o params[i + 1]

\* the loop over the drones, appending each drone's state
RECURSIVE DroneStatesUpTo(_, _, _, _, _, _, _)
DroneStatesUpTo(n, qp, qv, sd, ac, ref, params) ==
    IF n = 0 THEN <<>>
    ELSE Append(DroneStatesUpTo(n - 1, qp, qv, sd, ac, ref, params),
                DroneState(n - 1, qp, qv, sd, ac, ref, params))

get_drone_states(qp, qv, sd, ac, ref, params) ==
    DroneStatesUpTo(num_drones, qp, qv, sd, ac, ref, params)

-----------------------------------------------------------------------------
(* The simulator behind extendedEnv (mujoco_env_custom.py) and the model   *)
(* env_gen.py builds: a freshly loaded model, set_state and do_simulation. *)

\* one drone's slice of the model's default qpos / qvel
DefaultQpos == <<0, 0, 0>> \o mujoco_rpy2quat(<<0, 0, 0>>)
                   \o (IF pendulum THEN <<0, 0>> ELSE <<>>)

DefaultQvel == Zeros(VStride)

Repeat(slice) == Flatten([k \in 1 .. num_drones |-> slice])

MocapDefault == <<0, 0, 0, 200, 0, 0, 0>>

\* set_state ends in mj_forward, which recomputes every sensor: the
\* accelerometers of the freshly placed drones read gravity alone
ForwardSensors == Repeat(<<0, 0, 1962>>)

\* what the physics may do to one drone in one do_simulation call
PhysOutcomes == {"near", "far"}

PhysQpos(o) ==
    (IF o = "near" THEN <<20, 0, 2980>> \o mujoco_rpy2quat(<<10, 0, 0>>)
                   ELSE <<0, 0, 2000>> \o mujoco_rpy2quat(<<0, 0, 0>>))
    \o (IF pendulum THEN (IF o = "near" THEN <<5, 0>> ELSE <<0, 0>>) ELSE <<>>)

PhysQvel(o) ==
    (IF o = "near" THEN <<0, 0, -20, 5, 0, 0>> ELSE <<0, 0, -400, 0, 0, 0>>)
    \o (IF pendulum THEN (IF o = "near" THEN <<0, 5>> ELSE <<0, 0>>) ELSE <<>>)

PhysSensor(o) == IF o = "near" THEN <<0, 0, 1900>> ELSE <<0, 0, 0>>

-----------------------------------------------------------------------------
(* rewards.py default_reward_fcn and default_termination_fcn *)

SqDist(state, ref) ==
    (state[1] - ref[1]) * (state[1] - ref[1])
    + (state[2] - ref[2]) * (state[2] - ref[2])
    + (state[3] - ref[3]) * (state[3] - ref[3])

default_termination_fcn_Strict(ref, state, action, n) ==
    SqDist(state, ref) > max_distance * max_distance \/ n > max_steps

default_termination_fcn(ref, state, action, n) ==
    SqDist(state, ref) > max_distance * max_distance \/ n >= max_steps

default_reward_fcn(ref, state, action, n) ==
    - (SqDist(state, ref) \div 200) - (action[1] + action[2] + action[3] + action[4])

-----------------------------------------------------------------------------
(* control_reference: the joystick's four raw axes (axis_data[0..3], in    *)
(* units of 1/20) give a perturbation of the reference.                    *)

PairActive_Always(a, b) == TRUE

\* np.linalg.norm of an axis pair > 0.2
PairActive(a, b) == a * a + b * b > 16

Perturbation(axis_data) ==
    LET x == axis_data[1]
        y == - axis_data[2]
        z == - axis_data[4]
        yaw == - axis_data[3]
        pert == <<x, y, z, yaw>>
        xy_active == PairActive(x, y)
        zyaw_active == PairActive(z, yaw)
        mag == [k \in 1 .. 4 |-> Max(Abs(pert[k]) - 2, 0)]   \* |pert| - 0.1
        sg == [k \in 1 .. 4 |-> Sign(pert[k])]
        on == <<xy_active, xy_active, zyaw_active, zyaw_active>>
    IN  [k \in 1 .. 4 |-> mag[k] * sg[k] * B2I(on[k])]

WrapYaw_Unwrapped(yaw) == yaw

WrapYaw(yaw) == ((yaw + PI) % TwoPi) - PI

ClipPosition_XYOnly(pos) ==
    << Clip(pos[1], start_pos[1] - 1000, start_pos[1] + 1000),
       Clip(pos[2], start_pos[2] - 1000, start_pos[2] + 1000),
       pos[3] >>

\* np.clip of the position to center + [-5, -5, -6] .. center + [5, 5, 6]
ClipPosition(pos) ==
    << Clip(pos[1], start_pos[1] - 1000, start_pos[1] + 1000),
       Clip(pos[2], start_pos[2] - 1000, start_pos[2] + 1000),
       Clip(pos[3], start_pos[3] - 1200, start_pos[3] + 1200) >>

ControlledReference(ref, axis_data) ==
    LET pert == Perturbation(axis_data)
        sum == <<ref[1] + pert[1], ref[2] + pert[2], ref[3] + pert[3],
                 ref[4] + pert[4]>>
    IN  ClipPosition(sum) \o <<WrapYaw(sum[4])>>

\* the pose move_mocap_to(..., 0) receives
MocapPose(ref) == SubSeq(ref, 1, 3) \o mujoco_rpy2quat(<<0, 0, ref[4]>>)

-----------------------------------------------------------------------------
(* What a call returns *)

NoReturn == [op |-> "__init__", index |-> 0, error |-> "none", obs |-> <<>>,
             rewards |-> <<>>, dones |-> <<>>, truncated |-> <<>>,
             actions |-> <<>>, axes |-> <<>>, pert |-> <<>>,
             stepped |-> <<>>]     \* self.states as the per-drone loop read it

-----------------------------------------------------------------------------
(* reset_model(regen): the arrays, counters and states it leaves, from the *)
(* stream position r, the reference ref and the actuator arrays ac, ct and *)
(* marker mc of the running simulation.                                    *)

ResetParams_Always(regen, r, params) == generate_drone_params(r)

\* the parameters reset_model leaves: regenerated only when asked
ResetParams(regen, r, params) == IF regen THEN generate_drone_params(r) ELSE params

reset_model(regen, r, params, ref, ac, ct, mc) ==
    LET new_params == ResetParams(regen, r, params)
        r1 == IF regen THEN RngAdvance(r, ParamDraws) ELSE r
        sample(i) == sample_state(RngAdvance(r1, SampleDrawOffset(i)))
        qp == Flatten([k \in 1 .. num_drones |-> sample(k - 1)[1]])
        qv == Flatten([k \in 1 .. num_drones |-> sample(k - 1)[2]])
        new_act == IF regen THEN Zeros(4 * num_drones) ELSE ac
    IN  [np_random |-> RngAdvance(r1, num_drones * SampleDraws),
         drone_params |-> new_params,
         qpos |-> qp,
         qvel |-> qv,
         sensordata |-> ForwardSensors,
         act |-> new_act,
         ctrl |-> IF regen THEN Zeros(4 * num_drones) ELSE ct,
         mocap |-> IF regen THEN MocapDefault ELSE mc,
         num_steps |-> Zeros(num_drones),
         states |-> get_drone_states(qp, qv, ForwardSensors, new_act, ref, new_params)]

-----------------------------------------------------------------------------
(* Inputs *)

\* motor throttles in [0, 1]: every drone idle, or the first drone driven
ActionBatches ==
    { [k \in 1 .. num_drones |-> <<0, 0, 0, 0>>],
      [k \in 1 .. num_drones |-> IF k = 1 THEN <<1, 0, 1, 0>> ELSE <<0, 0, 0, 0>>] }

IdleAxes == <<0, 0, 0, 0>>

\* joystick readings tried during vector_step
StepAxes == {IdleAxes, <<20, 0, 0, 20>>}

\* joystick readings tried on control_reference alone
JoystickAxes ==
    { IdleAxes, <<3, 0, 0, 0>>, <<0, -3, 0, 0>>, <<3, 2, 0, 0>>, <<3, 3, 0, 0>>,
      <<20, 0, 0, 0>>, <<-20, -20, 0, 0>>, <<0, 0, 3, 0>>, <<0, 0, 2, -3>>,
      <<0, 0, -20, 0>>, <<0, 0, 20, 0>>, <<0, 0, 0, -20>>, <<0, 0, 0, 20>>,
      <<3, 0, -20, 20>>, <<20, 20, 3, 0>>, <<0, 4, 4, 0>>,
      <<20, 0, 0, -20>> }

\* configured references tried on control_reference alone
ReferenceChoices ==
    { <<0, 0, 3000, 0>>, <<990, -990, 4190, 610>>, <<0, 0, 1805, -620>>,
      <<0, 0, 3000, PI>>, <<2000, 0, 3000, -PI>>, <<0, -3000, 5000, 1900>> }

\* configurations tried: the plain one, the training one (everything
\* randomised, regeneration on; control asked for with no device plugged
\* in), regeneration under joystick control, a threshold without
\* random_params, and random_params without a threshold
Cfg(p, rp, rs, regen, c, joy) ==
    [pendulum |-> p, random_params |-> rp, random_start_pos |-> rs,
     regen_env_at_steps |-> regen, controlled |-> c, joystick |-> joy]

Configs ==
    { Cfg(FALSE, FALSE, FALSE, 0, FALSE, FALSE),
      Cfg(TRUE, TRUE, TRUE, RegenAt, TRUE, FALSE),
      Cfg(FALSE, TRUE, FALSE, RegenAt, TRUE, TRUE),
      Cfg(TRUE, FALSE, FALSE, RegenAt, FALSE, FALSE),
      Cfg(FALSE, TRUE, FALSE, 0, FALSE, FALSE) }

\* the configuration control_reference is tried under on its own
JoystickConfigs == { Cfg(FALSE, FALSE, FALSE, 0, TRUE, TRUE) }

\* indices tried on reset_at
IndexChoices == (0 - num_drones) .. num_drones

-----------------------------------------------------------------------------
(* __init__ *)

ControlledAfterInit_NoDowngrade(requested, found) == requested

\* reference control is disabled when no controller was found
ControlledAfterInit(requested, found) == requested /\ found

Construct(ref, cfgs) ==
    /\ \E c \in cfgs :
          /\ pendulum = c.pendulum
          /\ random_params = c.random_params
          /\ random_start_pos = c.random_start_pos
          /\ regen_env_at_steps = c.regen_env_at_steps
          /\ config_controlled = c.controlled
          /\ joystick_controller = c.joystick
          /\ controlled = ControlledAfterInit(c.controlled, c.joystick)
    /\ reference = ref
    /\ total_steps = 0
    /\ num_steps = Zeros(num_drones)
    /\ seed \in 0 .. RngPeriod - 1
    /\ drone_params = generate_drone_params(seed)
    /\ np_random = RngAdvance(seed, ParamDraws)
    /\ qpos = Repeat(DefaultQpos)
    /\ qvel = Repeat(DefaultQvel)
    /\ sensordata = Zeros(3 * num_drones)
    /\ act = Zeros(4 * num_drones)
    /\ ctrl = Zeros(4 * num_drones)
    /\ mocap = MocapDefault
    /\ states = get_drone_states(qpos, qvel, sensordata, act, reference, drone_params)
    /\ step_calls = 0
    /\ steps_since_reset = Zeros(num_drones)
    /\ steps_since_regen = 0
    /\ ret = NoReturn

Init == Construct(<<0, 0, 3000, 0>>, Configs)

-----------------------------------------------------------------------------------------------------------------------------------------------------
(* vector_step.  StepResult is everything the call leaves and returns,     *)
(* given the actions, the joystick reading and what the physics did.       *)

RegenDue_AnyParams(total) ==
    regen_env_at_steps # 0 /\ total = regen_env_at_steps

\* the regeneration test at the end of the step
RegenDue(total) ==
    random_params /\ regen_env_at_steps # 0 /\ total = regen_env_at_steps

Truncations_FirstDrone(ref, sts, actions, counts) ==
    [k \in 1 .. num_drones |->
        default_termination_fcn(ref, sts[1], actions[1], counts[1])]

\* the per-drone loop: each drone's flag from its own state, action and count
Truncations(ref, sts, actions, counts) ==
    [k \in 1 .. num_drones |->
        default_termination_fcn(ref, sts[k], actions[k], counts[k])]

Rewards(ref, sts, actions, counts) ==
    [k \in 1 .. num_drones |->
        default_reward_fcn(ref, sts[k], actions[k], counts[k])]

TruncatedOut_Unforced(regen, truncated) == truncated

\* the truncated flags returned: all set when the model was regenerated
TruncatedOut(regen, truncated) ==
    IF regen THEN [k \in 1 .. num_drones |-> TRUE] ELSE truncated

StepResult(actions, axis_data, outcome) ==
    LET ref1 == IF controlled THEN ControlledReference(reference, axis_data)
                              ELSE reference
        mocap1 == MocapPose(ref1)
        ctrl1 == Flatten([k \in 1 .. num_drones |->
                             [m \in 1 .. 4 |-> 1 + 9 * actions[k][m]]])
        qpos1 == Flatten([k \in 1 .. num_drones |-> PhysQpos(outcome[k])])
        qvel1 == Flatten([k \in 1 .. num_drones |-> PhysQvel(outcome[k])])
        sens1 == Flatten([k \in 1 .. num_drones |-> PhysSensor(outcome[k])])
        act1 == ctrl1
        num_steps1 == [k \in 1 .. num_drones |-> num_steps[k] + 1]
        total1 == total_steps + 1
        states1 == get_drone_states(qpos1, qvel1, sens1, act1, ref1, drone_params)
        truncated1 == Truncations(ref1, states1, actions, num_steps1)
        rewards1 == Rewards(ref1, states1, actions, num_steps1)
        dones1 == [k \in 1 .. num_drones |-> FALSE]
        regen == RegenDue(total1)
        m == reset_model(TRUE, np_random, drone_params, ref1, act1, ctrl1, mocap1)
        after == IF regen
                 THEN m
                 ELSE [np_random |-> np_random, drone_params |-> drone_params,
                       qpos |-> qpos1, qvel |-> qvel1, sensordata |-> sens1,
                       act |-> act1, ctrl |-> ctrl1, mocap |-> mocap1,
                       num_steps |-> num_steps1, states |-> states1]
    IN  [reference |-> ref1,
         regen |-> regen,
         total_steps |-> IF regen THEN 0 ELSE total1,
         after |-> after,
         ret |-> [NoReturn EXCEPT
                     !.op = "vector_step",
                     !.obs = after.states,
                     !.rewards = rewards1,
                     !.dones = dones1,
                     !.truncated = TruncatedOut(regen, truncated1),
                     !.actions = actions,
                     !.stepped = states1,
                     !.axes = IF controlled THEN axis_data ELSE <<>>,
                     !.pert = IF controlled THEN Perturbation(axis_data) ELSE <<>>]]

vector_step(actions, axis_data, outcome) ==
    /\ step_calls < MaxStepCalls
    /\ step_calls' = step_calls + 1
    /\ \E n \in {StepResult(actions, axis_data, outcome)} :
          /\ reference' = n.reference
          /\ total_steps' = n.total_steps
          /\ np_random' = n.after.np_random
          /\ drone_params' = n.after.drone_params
          /\ qpos' = n.after.qpos
          /\ qvel' = n.after.qvel
          /\ sensordata' = n.after.sensordata
          /\ act' = n.after.act
          /\ ctrl' = n.after.ctrl
          /\ mocap' = n.after.mocap
          /\ num_steps' = n.after.num_steps
          /\ states' = n.after.states
          /\ ret' = n.ret
          /\ steps_since_reset'
             = IF n.regen THEN Zeros(num_drones)
               ELSE [k \in 1 .. num_drones |-> steps_since_reset[k] + 1]
          /\ steps_since_regen' = IF n.regen THEN 0 ELSE steps_since_regen + 1
    /\ UNCHANGED config

-----------------------------------------------------------------------------
(* vector_reset *)

vector_reset ==
    /\ \E m \in {reset_model(FALSE, np_random, drone_params, reference, act, ctrl,
                             mocap)} :
          /\ np_random' = m.np_random
          /\ drone_params' = m.drone_params
          /\ qpos' = m.qpos
          /\ qvel' = m.qvel
          /\ sensordata' = m.sensordata
          /\ act' = m.act
          /\ ctrl' = m.ctrl
          /\ mocap' = m.mocap
          /\ num_steps' = m.num_steps
          /\ states' = m.states
          /\ ret' = [NoReturn EXCEPT !.op = "vector_reset", !.obs = m.states]
    /\ steps_since_reset' = Zeros(num_drones)
    /\ UNCHANGED <<config, reference, total_steps, step_calls, steps_since_regen>>

-----
(* reset_at(index).  The only check is index < num_drones; the slices are  *)
(* then taken with Python's rules, under which a negative index counts     *)
(* from the end, and numpy refuses to store a sample into a slice of a     *)
(* different length (ValueError) after sample_state has drawn it.          *)

\* the drone whose slices an accepted index selects
ResetDrone(index) == SliceIdx(PStride * index, PStride * num_drones) \div PStride

ResetCounter_All(counts, index) == Zeros(num_drones)

ResetCounter_None(counts, index) == counts

\* self.num_steps[index] = 0
ResetCounter(counts, index) ==
    [counts EXCEPT ![IF index < 0 THEN num_drones + index + 1 ELSE index + 1] = 0]

\* ob = self._get_obs()[index]: the state list as it stands
ResetObservation(sts, index) == At(sts, index)

reset_at(index) ==
    \E smp \in {sample_state(np_random)} :
       LET fits == SliceLen(qpos, PStride * index, PStride * (index + 1))
                       = Len(smp[1])
       IN  IF ~ (index < num_drones)
           THEN /\ ret' = [NoReturn EXCEPT !.op = "reset_at", !.index = index,
                                           !.error = "AssertionError"]
                /\ UNCHANGED <<config, np_random, reference, drone_params,
                               total_steps, num_steps, qpos, qvel, sensordata,
                               act, ctrl, mocap, states, step_calls,
                               steps_since_reset, steps_since_regen>>
           ELSE IF ~ fits
           THEN /\ np_random' = RngAdvance(np_random, SampleDraws)
                /\ ret' = [NoReturn EXCEPT !.op = "reset_at", !.index = index,
                                           !.error = "ValueError"]
                /\ UNCHANGED <<config, reference, drone_params, total_steps,
                               num_steps, qpos, qvel, sensordata, act, ctrl,
                               mocap, states, step_calls, steps_since_reset,
                               steps_since_regen>>
           ELSE /\ np_random' = RngAdvance(np_random, SampleDraws)
                /\ qpos' = SetSlice(qpos, PStride * index, PStride * (index + 1),
                                    smp[1])
                /\ qvel' = SetSlice(qvel, VStride * index, VStride * (index + 1),
                                    smp[2])
                /\ sensordata' = ForwardSensors
                /\ num_steps' = ResetCounter(num_steps, index)
                /\ ret' = [NoReturn EXCEPT !.op = "reset_at", !.index = index,
                                           !.obs = ResetObservation(states, index)]
                /\ steps_since_reset'
                   = [steps_since_reset EXCEPT ![ResetDrone(index) + 1] = 0]
                /\ UNCHANGED <<config, reference, drone_params, total_steps, act,
                               ctrl, mocap, states, step_calls, steps_since_regen>>

\* reset_at(None) resets drone 0
reset_at_None == reset_at(0)

-----------------------------------------------------------------------------
(* control_reference called on its own *)

control_reference(axis_data) ==
    /\ step_calls < MaxRefUpdates
    /\ step_calls' = step_calls + 1
    /\ reference' = ControlledReference(reference, axis_data)
    /\ mocap' = MocapPose(reference')
    /\ ret' = [NoReturn EXCEPT !.op = "control_reference", !.axes = axis_data,
                               !.pert = Perturbation(axis_data)]
    /\ UNCHANGED <<config, np_random, drone_params, total_steps, num_steps, qpos,
                   qvel, sensordata, act, ctrl, states, steps_since_reset,
                   steps_since_regen>>

-----------------------------------------------------------------------------
(* The environment under its batched protocol *)

Next ==
    \/ \E actions \in ActionBatches, axis_data \in StepAxes,
          outcome \in [1 .. num_drones -> PhysOutcomes] :
          /\ controlled \/ axis_data = IdleAxes
          /\ vector_step(actions, axis_data, outcome)
    \/ vector_reset
    \/ \E index \in IndexChoices : reset_at(index)
    \/ reset_at_None

Spec == Init /\ [][Next]_vars

(* The reference controller alone, from any configured reference *)

InitRef == \E ref \in ReferenceChoices : Construct(ref, JoystickConfigs)

NextRef == \E axis_data \in JoystickAxes : control_reference(axis_data)

SpecRef == InitRef /\ [][NextRef]_vars

-----------------------------------------------------------------------------
(* Properties *)

AllTruncated(r) == \A k \in 1 .. num_drones : r.truncated[k] = TRUE

\* drone i's slice of qpos / qvel
QposOf(qp, i) == Slice(qp, PStride * i, PStride * (i + 1))

QvelOf(qv, i) == Slice(qv, VStride * i, VStride * (i + 1))

\* C1 as stated: whenever a threshold is configured, the vector_step on
\* which total_steps reaches it returns truncated all True and leaves
\* total_steps at 0.
C1_ThresholdAloneTruncates ==
    [][ ( /\ ret'.op = "vector_step"
          /\ regen_env_at_steps # 0
          /\ total_steps + 1 = regen_env_at_steps )
        => (AllTruncated(ret') /\ total_steps' = 0) ]_vars

\* C1 amended: with random_params on and a non-zero threshold configured,
\* the vector_step on which total_steps reaches the threshold returns
\* truncated all True and leaves total_steps at 0.
C1_RegenTruncatesAll ==
    [][ ( /\ ret'.op = "vector_step"
          /\ random_params
          /\ regen_env_at_steps # 0
          /\ total_steps + 1 = regen_env_at_steps )
        => (AllTruncated(ret') /\ total_steps' = 0) ]_vars

\* the step that reached the threshold has returned, after a regeneration
C1_Witness ==
    /\ ret.op = "vector_step"
    /\ random_params /\ regen_env_at_steps # 0
    /\ total_steps = 0
    /\ step_calls = regen_env_at_steps
    /\ AllTruncated(ret)

\* C2: reset_at(i) for a drone i zeroes drone i's step counter and writes a
\* freshly sampled state into drone i's qpos / qvel slice; every other
\* drone j keeps its step counter, its qpos / qvel slice and its entry of
\* self.states.
C2_ResetIsolation ==
    [][ \A i \in Drones :
          (ret'.op = "reset_at" /\ ret'.index = i /\ ret'.error = "none")
          => /\ num_steps'[i + 1] = 0
             /\ QposOf(qpos', i) = sample_state(np_random)[1]
             /\ QvelOf(qvel', i) = sample_state(np_random)[2]
             /\ \A j \in Drones \ {i} :
                   /\ num_steps'[j + 1] = num_steps[j + 1]
                   /\ QposOf(qpos', j) = QposOf(qpos, j)
                   /\ QvelOf(qvel', j) = QvelOf(qvel, j)
                   /\ states'[j + 1] = states[j + 1] ]_vars

\* drone 0 has been reset while drone 1 is mid-episode in another state
C2_Witness ==
    /\ ret.op = "reset_at" /\ ret.index = 0 /\ ret.error = "none"
    /\ num_steps[1] = 0 /\ num_steps[2] > 0
    /\ QposOf(qpos, 0) # QposOf(qpos, 1)

\* C3: after reset_at(index) returns, the observation it returned and the
\* drone's entry of self.states are the state extracted from the freshly
\* written raw state.
C3_ResetOneFreshObservation ==
    (ret.op = "reset_at" /\ ret.error = "none" /\ ret.index \in Drones)
    => /\ ret.obs = DroneState(ret.index, qpos, qvel, sensordata, act, reference,
                               drone_params)
       /\ states[ret.index + 1] = ret.obs

\* C4: every vector_step returns dones all False, and on a step without
\* regeneration truncated[k] is the termination predicate on drone k's new
\* state, drone k's action and drone k's step count.
C4_DonesFalseTruncatedPerDrone ==
    ret.op = "vector_step"
    => /\ \A k \in 1 .. num_drones : ret.dones[k] = FALSE
       /\ total_steps # 0
          => \A k \in 1 .. num_drones :
                ret.truncated[k]
                = default_termination_fcn(reference, states[k], ret.actions[k],
                                          num_steps[k])

\* a step without regeneration truncated one drone and not the other
C4_Witness ==
    /\ ret.op = "vector_step" /\ total_steps # 0
    /\ ret.truncated[1] # ret.truncated[2]

\* C5: every drone's state has 23 + 6 entries without the pendulum and
\* 27 + 6 with it, and every drone has 6 parameters either way.
C5_StateLength ==
    \A k \in 1 .. num_drones :
       /\ Len(drone_params[k]) = 6
       /\ Len(states[k]) = (IF pendulum THEN 27 ELSE 23) + Len(drone_params[k])

\* the states after a regeneration under the pendulum
C5_Witness ==
    /\ pendulum /\ random_params
    /\ ret.op = "vector_step" /\ total_steps = 0
    /\ Len(states[1]) = 33 /\ Len(ret.obs[2]) = 33

C7_PositionClipped ==
    ret.op = "control_reference"
    => /\ Abs(reference[1] - start_pos[1]) <= 1000
       /\ Abs(reference[2] - start_pos[2]) <= 1000
       /\ Abs(reference[3] - start_pos[3]) <= 1200

\* a perturbation pushed x and z against the faces of the box
C7_Witness ==
    /\ ret.op = "control_reference"
    /\ ret.pert[1] > 0 /\ reference[1] = start_pos[1] + 1000
    /\ ret.pert[3] > 0 /\ reference[3] = start_pos[3] + 1200

\* C8: an axis pair whose combined magnitude is below 0.2 perturbs neither
\* of its axes, whatever the other pair reads.
C8_PairDeadzone ==
    ret.op = "control_reference"
    => /\ ret.axes[1] * ret.axes[1] + ret.axes[2] * ret.axes[2] < 16
          => (ret.pert[1] = 0 /\ ret.pert[2] = 0)
       /\ ret.axes[3] * ret.axes[3] + ret.axes[4] * ret.axes[4] < 16
          => (ret.pert[3] = 0 /\ ret.pert[4] = 0)

\* x reads 0.15, past its own deadzone of 0.1, with the (x, y) pair below 0.2
\* and the (z, yaw) pair deflected fully
C8_Witness ==
    /\ ret.op = "control_reference"
    /\ ret.axes = <<3, 0, -20, 20>>
    /\ ret.pert[1] = 0 /\ ret.pert[3] # 0

\* C9: vector_reset keeps the parameters and total_steps, zeroes every
\* step counter, writes a fresh sample into every drone's slice and returns
\* the states extracted from what it wrote.
C9_BatchReset ==
    [][ ret'.op = "vector_reset"
        => /\ drone_params' = drone_params
           /\ total_steps' = total_steps
           /\ \A i \in Drones :
                 /\ num_steps'[i + 1] = 0
                 /\ QposOf(qpos', i)
                    = sample_state(RngAdvance(np_random, i * SampleDraws))[1]
                 /\ QvelOf(qvel', i)
                    = sample_state(RngAdvance(np_random, i * SampleDraws))[2]
           /\ ret'.obs = get_drone_states(qpos', qvel', sensordata', act',
                                          reference', drone_params')
           /\ states' = ret'.obs ]_vars

\* a reset mid-run, under randomised parameters and starts
C9_Witness ==
    /\ ret.op = "vector_reset"
    /\ random_params /\ random_start_pos
    /\ total_steps > 0
    /\ num_steps = Zeros(num_drones)

\* C10: reset_at with an index outside 0 .. num_drones - 1 raises the
\* assertion and leaves the raw state and the step counters as they were.
C10_OutOfRangeAsserted ==
    [][ (ret'.op = "reset_at" /\ ret'.index \notin Drones)
        => /\ ret'.error = "AssertionError"
           /\ UNCHANGED <<qpos, qvel, sensordata, num_steps>> ]_vars

\* C11: in an environment that is not under reference control, because
\* control was not asked for or because no controller was found at
\* construction, no vector_step (with or without regeneration),
\* vector_reset or reset_at changes the reference.
C11_ReferenceOnlyByController ==
    [][ (~ config_controlled \/ ~ joystick_controller)
        => reference' = reference ]_vars

\* control was asked for with no controller plugged in, and a step has
\* just regenerated the model
C11_Witness ==
    /\ config_controlled /\ ~ joystick_controller /\ ~ controlled
    /\ ret.op = "vector_step"
    /\ random_params /\ regen_env_at_steps # 0
    /\ step_calls = regen_env_at_steps /\ total_steps = 0
    /\ reference = <<0, 0, 3000, 0>>

\* C12: drone i's step counter is the number of vector_steps since drone i
\* was last reset (by reset_at, vector_reset or a regeneration), and
\* total_steps is the number of vector_steps since the parameters were
\* last generated (at construction or by a regeneration), so that nothing
\* but a regeneration takes total_steps back to 0.
C12_CountersCount ==
    /\ \A k \in 1 .. num_drones : num_steps[k] = steps_since_reset[k]
    /\ total_steps = steps_since_regen

\* the second step regenerated, a third step followed, and drone 0 was
\* then reset on its own
C12_Witness ==
    /\ ret.op = "reset_at" /\ ret.index = 0 /\ ret.error = "none"
    /\ step_calls = 3 /\ regen_env_at_steps = 2 /\ random_params
    /\ total_steps = 1
    /\ num_steps[1] = 0 /\ num_steps[2] = 1

\* the drone's position as the step's loop read it is within max_distance
\* of the reference
WithinDistance(r, k, ref) ==
    SqDist(r.stepped[k], ref) <= max_distance * max_distance

\* C13 as stated: on every vector_step a drone within max_distance of the
\* reference gets truncated True exactly when the step is the
\* max_steps-th or a later one since the drone's last reset.
C13_TruncatedFromMaxSteps ==
    [][ ret'.op = "vector_step"
        => \A k \in 1 .. num_drones :
              WithinDistance(ret', k, reference')
              => (ret'.truncated[k] <=> steps_since_reset[k] + 1 >= max_steps)
      ]_vars

\* C13 amended: on a vector_step that does not regenerate the model, a
\* drone within max_distance of the reference gets truncated True exactly
\* when the step is the max_steps-th or a later one since the drone's last
\* reset.
C13_TruncatedFromMaxStepsUnlessRegen ==
    [][ (ret'.op = "vector_step" /\ ~ RegenDue(total_steps + 1))
        => \A k \in 1 .. num_drones :
              WithinDistance(ret', k, reference')
              => (ret'.truncated[k] <=> steps_since_reset[k] + 1 >= max_steps)
      ]_vars

\* both drones near the reference: drone 0 has run past max_steps without
\* a reset and is truncated again, drone 1 was reset on the way and is not
C13_Witness ==
    /\ ret.op = "vector_step"
    /\ WithinDistance(ret, 1, reference) /\ WithinDistance(ret, 2, reference)
    /\ num_steps[1] = max_steps + 1 /\ ret.truncated[1]
    /\ num_steps[2] < max_steps /\ ~ ret.truncated[2]

Quantities == 0 .. 5

QuantityInterval(q) ==
    << mass_interval, arm_len_interval, motor_force_interval, motor_tau_interval,
       pendulum_length_interval, weight_mass_interval >>[q + 1]

\* the value of quantity q that one draw of the stream gives
ParamAtDraw(q, level) ==
    (IF q >= 4 THEN B2I(pendulum) ELSE 1)
    * (QuantityInterval(q)[1]
       + Uniform(QuantityInterval(q)[2], level) \div param_difficulty_div)

\* the parameters are the values of the draws that follow stream position
\* r, drone i's quantity q being draw number q * num_drones + i
ParamsFromStream(params, r) ==
    \A i \in Drones, q \in Quantities :
       params[i + 1][q + 1]
       = IF random_params
         THEN ParamAtDraw(q, RngLevel(r, q * num_drones + i))
         ELSE (IF q >= 4 THEN B2I(pendulum) ELSE 1) * QuantityInterval(q)[1]

\* every drone's slice is the sample drawn at its place after position r
SamplesFromStream(qp, qv, r) ==
    \A i \in Drones :
       /\ QposOf(qp, i) = sample_state(RngAdvance(r, i * SampleDraws))[1]
       /\ QvelOf(qv, i) = sample_state(RngAdvance(r, i * SampleDraws))[2]

\* what an operation draws and leaves is fixed by the stream position it
\* starts from: two instances on the same seed given the same calls stay at
\* the same stream position with the same parameters and states
SameStream ==
    /\ ret.op = "__init__"
       => /\ ParamsFromStream(drone_params, seed)
          /\ np_random = RngAdvance(seed, ParamDraws)
    /\ ret'.op = "vector_reset"
       => /\ drone_params' = drone_params
          /\ SamplesFromStream(qpos', qvel', np_random)
          /\ np_random' = RngAdvance(np_random, num_drones * SampleDraws)
    /\ (ret'.op = "vector_step" /\ RegenDue(total_steps + 1))
       => /\ ParamsFromStream(drone_params', np_random)
          /\ SamplesFromStream(qpos', qvel', RngAdvance(np_random, ParamDraws))
          /\ np_random'
             = RngAdvance(np_random, ParamDraws + num_drones * SampleDraws)
    /\ (ret'.op = "vector_step" /\ ~ RegenDue(total_steps + 1))
       => (np_random' = np_random /\ drone_params' = drone_params)
    /\ ret'.op = "reset_at"
       => /\ drone_params' = drone_params
          /\ np_random' = IF ret'.error = "AssertionError" THEN np_random
                          ELSE RngAdvance(np_random, SampleDraws)
    /\ ret'.op \in {"vector_reset", "vector_step"}
       => states' = get_drone_states(qpos', qvel', sensordata', act', reference',
                                     drone_params')

\* the sampling loop draws drone by drone
SamplesDroneByDrone ==
    random_start_pos
    => \A i, j \in Drones :
          i < j => SampleDrawOffset(i) + SampleDraws <= SampleDrawOffset(j)

C15_RegenerationStep ==
    [][ ret'.op = "vector_step"
        => /\ (\A k \in 1 .. num_drones : num_steps'[k] = 0)
              => /\ random_params /\ regen_env_at_steps # 0
                 /\ SamplesFromStream(qpos', qvel',
                                      RngAdvance(np_random, ParamDraws))
                 /\ ret'.obs = get_drone_states(qpos', qvel', sensordata', act',
                                                reference', drone_params')
                 /\ \A k \in 1 .. num_drones :
                       ret'.rewards[k]
                       = default_reward_fcn(reference', ret'.stepped[k],
                                            ret'.actions[k], num_steps[k] + 1)
           /\ (random_params /\ regen_env_at_steps # 0)
              => (0 <= total_steps' /\ total_steps' < regen_env_at_steps)
      ]_vars

\* a step has regenerated: the observations it returned are the states
\* after the reset, not the ones its rewards were computed on
C15_Witness ==
    /\ ret.op = "vector_step"
    /\ random_params /\ regen_env_at_steps # 0
    /\ num_steps = Zeros(num_drones) /\ total_steps = 0
    /\ ret.obs = states /\ ret.obs # ret.stepped
    /\ ret.rewards[1] # default_reward_fcn(reference, ret.obs[1], ret.actions[1], 0)

====
